---- MODULE Spec2Model ----
(***************************************************************************)
(* A model of the Wikipedia "On this day" Bluesky bot: one invocation of   *)
(* runBot (app.ts) is a process that walks through its await points; the   *)
(* shared state is the two JSON files of the store (articles.json and      *)
(* posts.json), the agent's session, the posts created on Bluesky and the  *)
(* liveness of the node process.                                           *)
(***************************************************************************)
EXTENDS Integers, Sequences, FiniteSets, TLC

\* ------------------------------------------------------------------------
\* Bounds of the model
\* ------------------------------------------------------------------------
\* largest number of postable fragments (holidays + list items +
\* anniversaries) of a digest
MaxUnits == 2
\* number of invocations of runBot after which the scheduler fires no more
MaxRuns == 3
\* number of invocation slots (sequential specifications use one at a time)
NumRuns == 2
\* largest number of items of a feed given to the feed selector
MaxItems == 3
\* largest number of messages printed by log
MaxLogs == 2
MaxTokens == 4
MaxChars == 3
MaxLinks == 2

Runs == 1..NumRuns

\* ------------------------------------------------------------------------
\* Dates: the UTC midnights the feed items can carry, as ISO instants
\* ------------------------------------------------------------------------
Yesterday == "2024-12-14T00:00:00.000Z"
Today == "2024-12-15T00:00:00.000Z"
Tomorrow == "2024-12-16T00:00:00.000Z"
\* the instant of Today written with a zone offset, as Date parses it too
TodayOffset == "2024-12-15T01:00:00.000+01:00"
\* a timestamp Date cannot parse (also a missing isoDate)
InvalidDate == "undefined"

\* the wall clock when a callback runs: an instant of the UTC day Today
\* (every instant of the model lies in that day), given by its UTC hour, and
\* the offset of the local zone in hours
Hours == 0..23
TzOffsets == {0 - 8, 0, 9}
Clock(utcHour, tz) == [utcHour |-> utcHour, tz |-> tz]
Clocks == {Clock(h, z) : h \in Hours, z \in TzOffsets}

\* new Date().getHours(): the hour of the local zone
getHours(c) == (c.utcHour + c.tz + 24) % 24

\* UTCMidnight with the getters of the local zone (getFullYear, getMonth,
\* getDate): the midnight of the calendar day of the local zone
LocalMidnight(c) ==
    IF c.utcHour + c.tz >= 24 THEN Tomorrow
    ELSE IF c.utcHour + c.tz < 0 THEN Yesterday ELSE Today

\* new Date(Date.UTC(getUTCFullYear(), getUTCMonth(), getUTCDate(), 0, 0, 0, 0))
\* .toISOString(): the midnight of the UTC day, whatever the local zone is
UTCMidnight(c) == Today

\* the wall clock of the process
VARIABLE clock

\* formattedDate of fetchOnThisDayArticle
formattedDate == UTCMidnight(clock)

\* todayISO of runBot
todayISO == UTCMidnight(clock)

\* new Date(isoDate).toISOString(): the instant in the one normal form, a
\* RangeError for a timestamp that cannot be parsed
toISOString(isoDate) ==
    IF isoDate = TodayOffset THEN Today
    ELSE IF isoDate = InvalidDate THEN "RangeError" ELSE isoDate

\* ------------------------------------------------------------------------
\* ContentType and the classes Content and Article
\* ------------------------------------------------------------------------
ContentType == {"todayText", "holiday", "featuredEvent", "event", "anniversary"}

\* new Content(type, value, img = null, alreadyPosted = false)
Content(type, value, img, alreadyPosted) ==
    [type |-> type, value |-> value, img |-> img, alreadyPosted |-> alreadyPosted]

\* new Article(id, url, contentList)
Article(id, url, contentList) ==
    [id |-> id, url |-> url, contentList |-> contentList]

\* the value null where an Article is expected
NullArticle == [id |-> "null", url |-> "null", contentList |-> <<>>]

\* a fragment of the digest: the element it was cut from, its position among
\* the elements of that kind and what its markup contains
Fragment(src, n, form) == [src |-> src, n |-> n, form |-> form]

\* the value undefined where a Content is expected (contentList[i] past the end)
UndefinedContent ==
    [type |-> "undefined", value |-> Fragment("none", 0, "none"),
     img |-> "null", alreadyPosted |-> FALSE]

\* ------------------------------------------------------------------------
\* The digest (the HTML of one feed item), reduced to what the segmenter
\* looks at: whether the leading paragraph has a colon, how many holidays
\* follow it, the list items (plain or containing the word "pictured") and
\* the anniversaries (with a birth year in parentheses, or a death marker
\* without any parenthesized year)
\* ------------------------------------------------------------------------
LiForms == {"plain", "pictured"}
AnnivForms == {"born", "diedNoYear"}

SeqsUpTo(S, n) == UNION {[1..k -> S] : k \in 0..n}

Docs ==
    {[colon |-> c, nHol |-> h, lis |-> l, annivs |-> a] :
        c \in BOOLEAN, h \in 0..MaxUnits,
        l \in SeqsUpTo(LiForms, MaxUnits), a \in SeqsUpTo(AnnivForms, MaxUnits)}

\* a paragraph without a colon has no holidays, one with a colon has at
\* least one entry after it (split('; ') never returns an empty array)
WellFormedDoc(d) ==
    /\ (d.colon <=> d.nHol >= 1)
    /\ d.nHol + Len(d.lis) + Len(d.annivs) <= MaxUnits

FeedItem(isoDate, contents) == [isoDate |-> isoDate, contents |-> contents]

\* the digest of the day before
YesterdaysDoc == [colon |-> TRUE, nHol |-> 1, lis |-> <<"plain">>, annivs |-> <<>>]

\* the feeds the model draws from: no item, yesterday's item alone, or
\* yesterday's item followed by today's (the feed lists the last days, the
\* latest last)
Feeds ==
    {<<>>, <<FeedItem(Yesterday, YesterdaysDoc)>>}
    \cup {<<FeedItem(Yesterday, YesterdaysDoc), FeedItem(Today, d)>> :
            d \in {x \in Docs : WellFormedDoc(x)}}

\* ------------------------------------------------------------------------
\* Content Segmenter (wikipedia.ts)
\* ------------------------------------------------------------------------
\* getOnThisDayTodayText: the paragraph, cut before ': ' when it has a colon
getOnThisDayTodayText(d) == Fragment("p", 0, IF d.colon THEN "beforeColon" ELSE "whole")

\* getOnThisDayHolidays: the entries after the colon, split on '; '
getOnThisDayHolidays(d) ==
    IF d.colon THEN [i \in 1..d.nHol |-> Fragment("p", i, "holiday")] ELSE <<>>

\* the list items in document order
ListItems(d) == [i \in 1..Len(d.lis) |-> Fragment("li", i, d.lis[i])]

IsPictured(f) == f.form = "pictured"
NotPictured(f) == f.form # "pictured"

\* getOnThisDayFeaturedEvents: the list items containing 'pictured'
getOnThisDayFeaturedEvents(d) == SelectSeq(ListItems(d), IsPictured)

\* getOnThisDayEvents: the other list items
getOnThisDayEvents(d) == SelectSeq(ListItems(d), NotPictured)

\* getOnThisDayAnniversaries
getOnThisDayAnniversaries(d) ==
    [i \in 1..Len(d.annivs) |-> Fragment("hlist", i, d.annivs[i])]

MapContent(s, type, img) ==
    [i \in 1..Len(s) |-> Content(type, s[i], img, FALSE)]

\* TodayTextOfFetch without the alreadyPosted argument
TodayTextUnposted(d) == Content("todayText", getOnThisDayTodayText(d), "null", FALSE)

\* the today-text unit as fetchOnThisDayArticle builds it:
\* new Content(ContentType.todayText, ..., null, true)
TodayTextOfFetch(d) == Content("todayText", getOnThisDayTodayText(d), "null", TRUE)

\* BuildContentList with the events pushed before the featured events
BuildContentListEventsFirst(d) ==
    <<TodayTextOfFetch(d)>>
    \o MapContent(getOnThisDayHolidays(d), "holiday", "null")
    \o MapContent(getOnThisDayEvents(d), "event", "null")
    \o MapContent(getOnThisDayFeaturedEvents(d), "featuredEvent", "img")
    \o MapContent(getOnThisDayAnniversaries(d), "anniversary", "null")

\* contentList as fetchOnThisDayArticle builds it
BuildContentList(d) ==
    <<TodayTextOfFetch(d)>>
    \o MapContent(getOnThisDayHolidays(d), "holiday", "null")
    \o MapContent(getOnThisDayFeaturedEvents(d), "featuredEvent", "img")
    \o MapContent(getOnThisDayEvents(d), "event", "null")
    \o MapContent(getOnThisDayAnniversaries(d), "anniversary", "null")

\* the filter of fetchOnThisDayArticle: the normalized timestamp of the item
\* equals formattedDate (a RangeError is caught and the item dropped)
IsToday(item) == toISOString(item.isoDate) = formattedDate

\* fetchOnThisDayArticle once the feed has been received: the article of the
\* first item dated today, null when there is none (articles[0] is undefined
\* and reading it throws inside the try block)
ArticleOfFeed(items) ==
    LET filteredArticles == SelectSeq(items, IsToday)
    IN  IF filteredArticles = <<>> THEN NullArticle
        ELSE Article(filteredArticles[1].isoDate, "link",
                     BuildContentList(filteredArticles[1].contents))

\* ------------------------------------------------------------------------
\* The JSON files of the store (utils.ts)
\* ------------------------------------------------------------------------
\* a file is missing, empty (''), unparseable, or holds a list
FileStates == {"missing", "empty", "corrupt", "ok"}
File(st, list) == [st |-> st, list |-> list]

\* outcome of a file-system call or of a network call
Outcomes == {"ok", "fail"}

\* initializeJSON writing nothing into the file it creates
initializeJSONNothingWritten == File("empty", <<>>)

\* initializeJSON: the file holds an empty list
initializeJSON == File("ok", <<>>)

\* loadFromJSON_file initializing the file whatever it holds
loadFromJSON_fileAlwaysInit(f, io) == IF io = "ok" THEN initializeJSON ELSE f

\* loadFromJSON, the file it leaves behind: a missing or empty file is
\* initialized, a read error other than ENOENT leaves it alone
loadFromJSON_file(f, io) ==
    IF io = "ok" /\ f.st \in {"missing", "empty"} THEN initializeJSON ELSE f

\* loadFromJSON returns a parsed object (and not undefined) when the file
\* parses, or when it was missing and has just been initialized; an empty
\* file is initialized but JSON.parse('') still throws
loadFromJSON_defined(f, io) == io = "ok" /\ f.st \in {"ok", "missing"}

\* the list of the object loadFromJSON returns
loadFromJSON_list(f, io) == IF f.st = "ok" THEN f.list ELSE <<>>

\* saveToJSON: a whole-file rewrite; a failed write is logged and swallowed
saveToJSON(f, list, io) == IF io = "ok" THEN File("ok", list) ELSE f

\* Array.prototype.find on a list of articles by id (null when absent)
FindArticle(list, id) ==
    IF \E i \in 1..Len(list) : list[i].id = id
    THEN list[CHOOSE i \in 1..Len(list) :
                /\ list[i].id = id
                /\ \A j \in 1..(i-1) : list[j].id # id]
    ELSE NullArticle

\* loadArticles: the stored articles, [] when loadFromJSON returned undefined
loadArticles(f, io) ==
    IF loadFromJSON_defined(f, io) THEN loadFromJSON_list(f, io) ELSE <<>>

\* loadArticle: the stored article with this id, null when there is none or
\* when loadFromJSON returned undefined
loadArticle(f, io, id) == FindArticle(loadArticles(f, io), id)

\* index of the first content of the article with this value, 0 when none
FindContent(contentList, value) ==
    IF \E i \in 1..Len(contentList) : contentList[i].value = value
    THEN CHOOSE i \in 1..Len(contentList) :
            /\ contentList[i].value = value
            /\ \A j \in 1..(i-1) : contentList[j].value # value
    ELSE 0

\* markArticleContentAsPosted, on the loaded list: the first content with the
\* value is flagged and every content with that value is replaced by it
MarkContentList(contentList, value) ==
    LET k == FindContent(contentList, value)
        contentToUpdate == [contentList[k] EXCEPT !.alreadyPosted = TRUE]
    IN  [i \in 1..Len(contentList) |->
            IF contentList[i].value # value THEN contentList[i] ELSE contentToUpdate]

MarkArticles(list, id, value) ==
    LET articleToUpdate ==
            [FindArticle(list, id) EXCEPT
                !.contentList = MarkContentList(FindArticle(list, id).contentList, value)]
    IN  [i \in 1..Len(list) |-> IF list[i].id # id THEN list[i] ELSE articleToUpdate]

\* markArticleContentAsPosted throws when the article or the content is not
\* in the loaded list
MarkThrows(list, id, value) ==
    \/ FindArticle(list, id) = NullArticle
    \/ FindContent(FindArticle(list, id).contentList, value) = 0

\* ------------------------------------------------------------------------
\* Prefixer and Sanitizer, as far as the state machine depends on them
\* ------------------------------------------------------------------------
\* index of the today-text unit prefixText finds, 0 when there is none
FindTodayText(contentList) ==
    IF \E i \in 1..Len(contentList) : contentList[i].type = "todayText"
    THEN CHOOSE i \in 1..Len(contentList) :
            /\ contentList[i].type = "todayText"
            /\ \A j \in 1..(i-1) : contentList[j].type # "todayText"
    ELSE 0

\* prefixText throws when the stored article has no today-text unit
\* (todayContent is undefined) or when content is undefined
prefixTextThrows(contentList, content) ==
    \/ FindTodayText(contentList) = 0
    \/ content = UndefinedContent

\* prefixText: the text to post, by the kind of the content
prefixText(contentList, content) ==
    [kind |-> content.type,
     todayText |-> contentList[FindTodayText(contentList)].value,
     body |-> content.value]

\* stripHTMLElementsAndDecorateText throws when the text carries the
\* <<YEARSAGO>> token and no parenthesized integer (match() returns null)
stripThrows(content) == content.value.form = "diedNoYear"

\* new BlueskyPost(text, createdAt, embeds?, facets?): the constructor
\* assigns its parameters by position
BlueskyPost(text, createdAt, embeds, facets) ==
    [text |-> text, embed |-> embeds, facets |-> facets, createdAt |-> createdAt]

\* rt.facets once preparePost has added the facets of the links
RtFacets == "rt.facets"

\* new Date().toISOString() at the time the record is built: the instant
\* of the n-th invocation, later for a later invocation
Instants == <<"12:00:01", "12:00:02", "12:00:03", "12:00:04", "12:00:05", "12:00:06",
              "12:00:07", "12:00:08">>
NowISO(n) == Instants[n]

\* the record preparePost returns (line 181): the facets are passed where
\* the constructor takes createdAt and the date where it takes embeds, and
\* nothing is passed for facets
preparePost(rawText, now) == BlueskyPost(rawText, RtFacets, now, "undefined")

\* the text of a post that has not been built
NoText ==
    [kind |-> "undefined", todayText |-> Fragment("none", 0, "none"),
     body |-> Fragment("none", 0, "none")]

\* the local postRecord before preparePost has returned
NoPost == BlueskyPost(NoText, "undefined", "undefined", "undefined")

\* ------------------------------------------------------------------------
\* State
\* ------------------------------------------------------------------------
VARIABLES
    DEBUG_MODE,     \* the environment variable, read once at start-up
    feed,           \* the items the feed collaborator serves
    articlesFile,   \* DB_PATH/articles.json
    postsFile,      \* DB_PATH/posts.json
    session,        \* whether the agent holds a session (login succeeded)
    remote,         \* the posts created on Bluesky, in order
    run,            \* the invocations of runBot: position and locals
    last,           \* what the previous completed invocation did
    nRuns,          \* number of invocations started so far
    alive           \* whether the node process is still running

\* the logger of utils.ts: its configuration and what it has written
VARIABLE logger

\* the state of the bot proper
main == <<clock, DEBUG_MODE, feed, articlesFile, postsFile, session, remote, run,
          last, nRuns, alive>>

\* the call of markArticleContentAsPosted examined on its own: whether it
\* has been made, the stored articles before it, and its arguments
VARIABLE markCall

\* the leading paragraph the two segmenters are examined on, and what each
\* of them returned for it
VARIABLE paragraph

\* the text the year count of the Sanitizer is examined on, the UTC year it
\* runs in, and what it made of the text
VARIABLE yearsAgo

\* the final text and the links preparePost is examined on, and the facets
\* it made for the links
VARIABLE facetCall

\* the state the functions examined on their own work on
pure == <<logger, markCall, paragraph, yearsAgo, facetCall>>

vars == <<main, pure>>

\* an invocation that has not started: the locals of runBot and of
\* sanitizeAndPostContent, and what the invocation found at its start
IdleRun ==
    [pc |-> "idle",
     branch |-> "none",            \* which branch of line 41 was taken
     articleOfToday |-> NullArticle,
     fetched |-> NullArticle,      \* fetchedArticleOfToday
     json |-> <<>>,                \* articleJSON.articles of saveArticleToJSON
     idx |-> 0,                    \* position of the for loop of line 93
     content |-> UndefinedContent, \* the content handed to sanitizeAndPostContent
     selected |-> FALSE,           \* sanitizeAndPostContent was called
     rawText |-> NoText,           \* rawText of sanitizeAndPostContent
     post |-> NoPost,              \* postRecord
     calls |-> 0,                  \* calls of postToBluesky
     created |-> FALSE,            \* agent.post returned a uri
     postSuccessful |-> "unset",
     critical |-> FALSE,           \* 'Failed to post to Bluesky!!!' was logged
     freshContentFound |-> FALSE,
     allPostedLogged |-> FALSE,    \* 'All content for article already posted'
     error |-> FALSE,              \* the catch block of runBot was entered
     trigger |-> "none",           \* what the scheduler callback did
     agentCalls |-> 0,             \* calls of agent.login and agent.post
     remote0 |-> <<>>,             \* Bluesky at the start of the invocation
     articles0 |-> File("missing", <<>>),
     posts0 |-> File("missing", <<>>)]

\* summary of a completed invocation
Summary(rr) ==
    [branch |-> rr.branch, selected |-> rr.selected, content |-> rr.content,
     calls |-> rr.calls, created |-> rr.created, trigger |-> rr.trigger]

NoSummary == Summary(IdleRun)

\* the article the invocations of the day before left in the store
YesterdaysArticle == Article(Yesterday, "link", BuildContentList(YesterdaysDoc))

\* articles.json when the process starts: absent, empty, unparseable, or
\* holding the article of the day before
InitialArticlesFiles ==
    {File("missing", <<>>), File("empty", <<>>), File("corrupt", <<>>),
     File("ok", <<YesterdaysArticle>>)}

\* ------------------------------------------------------------------------
\* log (utils.ts)
\* ------------------------------------------------------------------------
LogLevel == {"TRACE", "DEBUG", "INFO", "WARNING", "ERROR", "CRITICAL"}

\* LOG_TO_FILE = process.env.LOG_TO_FILE || false, where it is tested: any
\* string that is set is truthy
LOG_TO_FILE(env) == env # "unset"

\* the logger before log has been called: the configuration, whether
\* LOG_DIR exists, the lines of the log file of the day (none: no file), the
\* lines on the console, and whether a call of log has rejected
Logger(env, level, dir) ==
    [env |-> env, LOG_LEVEL |-> level, dir |-> dir, file |-> <<>>, fileExists |-> FALSE,
     console |-> <<>>, rejected |-> FALSE]

\* a paragraph on which a segmenter has not run yet
Unsegmented(p) ==
    [p |-> p, todayDone |-> FALSE, todayText |-> <<>>,
     holidaysDone |-> FALSE, holidays |-> <<>>, holidaysThrew |-> FALSE]

\* a text on which the year count has not run yet
Uncounted(text, year) ==
    [text |-> text, utcYear |-> year, done |-> FALSE, threw |-> FALSE, result |-> <<>>]

\* a text and its links for which preparePost has not made the facets yet
Unprepared(text, links) == [text |-> text, links |-> links, done |-> FALSE, facets |-> <<>>]

\* every function but the named one is at rest: the logger of a host
\* without LOG_TO_FILE, no call of markArticleContentAsPosted, no paragraph,
\* no text
IdleExcept(name) ==
    /\ IF name = "logger" THEN TRUE ELSE logger = Logger("unset", "INFO", TRUE)
    /\ IF name = "markCall" THEN TRUE
       ELSE markCall = [called |-> FALSE, before |-> <<>>, id |-> "null", k |-> 0]
    /\ IF name = "paragraph" THEN TRUE ELSE paragraph = Unsegmented(<<>>)
    /\ IF name = "yearsAgo" THEN TRUE ELSE yearsAgo = Uncounted(<<>>, 0)
    /\ IF name = "facetCall" THEN TRUE ELSE facetCall = Unprepared(<<>>, <<>>)

\* the hour at which the specifications without a clock of their own run:
\* noon UTC on a host whose zone is UTC
Noon == Clock(12, 0)

\* the bot proper where a function is examined on its own
MainIdle ==
    /\ clock = Noon
    /\ DEBUG_MODE = FALSE
    /\ feed = <<>>
    /\ articlesFile = File("missing", <<>>)
    /\ postsFile = File("missing", <<>>)
    /\ session = FALSE
    /\ remote = <<>>
    /\ run = [r \in Runs |-> IdleRun]
    /\ last = NoSummary
    /\ nRuns = 0
    /\ alive = TRUE

\* log(level, message): mkdir when LOG_TO_FILE and LOG_DIR is missing, then
\* the switch; fs.appendFile creates the file when it is missing and throws
\* when LOG_DIR is, and what is thrown is rethrown by log.
\* printed: whether the switch prints a message of this level under
\* LOG_LEVEL, CRITICAL and free levels always.
\* appended: whether fs.appendFile is called for a printed message: behind
\* if (LOG_TO_FILE) for CRITICAL and for the free levels, unconditionally
\* for the other levels.
log(level) ==
    /\ ~logger.rejected
    /\ Len(logger.console) < MaxLogs
    /\ LET dir == logger.dir \/ LOG_TO_FILE(logger.env)
           LOG_LEVEL == logger.LOG_LEVEL
           printed ==
                IF level = "ERROR" THEN LOG_LEVEL # "CRITICAL"
                ELSE IF level = "WARNING"
                    THEN LOG_LEVEL # "CRITICAL" /\ LOG_LEVEL # "ERROR"
                ELSE IF level = "INFO"
                    THEN LOG_LEVEL # "CRITICAL" /\ LOG_LEVEL # "ERROR"
                            /\ LOG_LEVEL # "WARNING"
                ELSE IF level = "DEBUG" THEN LOG_LEVEL = "DEBUG" \/ LOG_LEVEL = "TRACE"
                ELSE IF level = "TRACE" THEN LOG_LEVEL = "TRACE"
                ELSE TRUE
           appended ==
                /\ printed
                /\ IF level = "CRITICAL" \/ level \notin LogLevel
                   THEN LOG_TO_FILE(logger.env) ELSE TRUE
           console == IF printed THEN Append(logger.console, level) ELSE logger.console
       IN  logger' =
            IF appended /\ ~dir
            THEN [logger EXCEPT !.dir = dir, !.console = console, !.rejected = TRUE]
            ELSE IF appended
            THEN [logger EXCEPT !.dir = dir, !.console = console,
                                !.file = Append(@, level), !.fileExists = TRUE]
            ELSE [logger EXCEPT !.dir = dir, !.console = console]
    /\ UNCHANGED <<main, markCall, paragraph, yearsAgo, facetCall>>

\* log on its own: any configuration, any sequence of calls
InitLog ==
    /\ MainIdle
    /\ IdleExcept("logger")
    /\ logger \in {Logger(env, level, dir) :
                        env \in {"unset", "true", "false"}, level \in LogLevel,
                        dir \in BOOLEAN}

\* log is called with the levels of LogLevel and with free strings ("INIT")
NextLog == \E level \in LogLevel \cup {"INIT"} : log(level)

LogSpec == InitLog /\ [][NextLog]_vars

\* ------------------------------------------------------------------------
\* The two segmenters of the leading paragraph (wikipedia.ts) on their own
\* ------------------------------------------------------------------------
\* The paragraph's HTML is a sequence of pieces: text, a colon that no space
\* follows (as in "https:"), a colon followed by a space, a semicolon
\* followed by a space, and a line break, between "<p>" and "</p>".

\* String.includes(':')
includesColon(s) == \E i \in 1..Len(s) : s[i] \in {":", ": "}

\* String.indexOf of a piece; 0 when it does not occur
indexOf(s, sep) ==
    IF \E i \in 1..Len(s) : s[i] = sep
    THEN CHOOSE i \in 1..Len(s) : s[i] = sep /\ \A j \in 1..(i - 1) : s[j] # sep
    ELSE 0

\* String.split(sep): the pieces between the occurrences of sep
RECURSIVE split(_, _)
split(s, sep) ==
    IF indexOf(s, sep) = 0 THEN <<s>>
    ELSE <<SubSeq(s, 1, indexOf(s, sep) - 1)>>
            \o split(SubSeq(s, indexOf(s, sep) + 1, Len(s)), sep)

\* String.replace('\n', ''): the first line break is removed
replaceNewline(s) ==
    IF indexOf(s, "\n") = 0 THEN s
    ELSE SubSeq(s, 1, indexOf(s, "\n") - 1) \o SubSeq(s, indexOf(s, "\n") + 1, Len(s))

\* getOnThisDayTodayText: with a colon, the first piece of split(': ')
\* with the tag closed again; without one, the paragraph
TodayTextOfParagraph(p) ==
    IF includesColon(p)
    THEN replaceNewline(split(p, ": ")[1]) \o <<"</p>">>
    ELSE p

\* getOnThisDayHolidays throws when split(': ') has no second piece
HolidaysThrow(p) == includesColon(p) /\ Len(split(p, ": ")) < 2

\* getOnThisDayHolidays: with a colon, the second piece of split(': ')
\* behind an opening tag, split on '; '; without one, no holiday
HolidaysOfParagraph(p) ==
    IF includesColon(p)
    THEN split(<<"<p>">> \o replaceNewline(split(p, ": ")[2]), "; ")
    ELSE <<>>

\* getOnThisDayTodayText(onThisDayArticle)
SegmentTodayText ==
    /\ paragraph.p # <<>>
    /\ ~paragraph.todayDone
    /\ paragraph' = [paragraph EXCEPT !.todayDone = TRUE,
                                      !.todayText = TodayTextOfParagraph(paragraph.p)]
    /\ UNCHANGED <<main, logger, markCall, yearsAgo, facetCall>>

\* getOnThisDayHolidays(onThisDayArticle)
SegmentHolidays ==
    /\ paragraph.p # <<>>
    /\ ~paragraph.holidaysDone
    /\ paragraph' = [paragraph EXCEPT
            !.holidaysDone = TRUE,
            !.holidaysThrew = HolidaysThrow(paragraph.p),
            !.holidays = IF HolidaysThrow(paragraph.p) THEN <<>>
                         ELSE HolidaysOfParagraph(paragraph.p)]
    /\ UNCHANGED <<main, logger, markCall, yearsAgo, facetCall>>

InitSegment ==
    /\ MainIdle
    /\ IdleExcept("paragraph")
    /\ paragraph \in
        {Unsegmented(<<"<p>">> \o body \o <<"</p>">>) :
            body \in SeqsUpTo({"a", ":", ": ", "; ", "\n"}, MaxTokens)}

NextSegment == SegmentTodayText \/ SegmentHolidays

SegmentSpec == InitSegment /\ [][NextSegment]_vars

\* ------------------------------------------------------------------------
\* The year count of the Sanitizer (utils.ts) on its own
\* ------------------------------------------------------------------------
\* The text at that point of stripHTMLElementsAndDecorateText is a sequence
\* of pieces: text, the token <<YEARSAGO>>, a parenthesized integer, a
\* parenthesized text that is not an integer.
YEARSAGO == [t |-> "<<YEARSAGO>>", y |-> 0]
ParenInt(y) == [t |-> "(int)", y |-> y]
\* what the token is replaced with: n + ' years ago'
YearsAgoText(n) == [t |-> "years ago", y |-> n]

\* contentRaw.includes('<<YEARSAGO>>')
includesYEARSAGO(text) == \E i \in 1..Len(text) : text[i] = YEARSAGO

\* the last parenthesized integer of the text
matchLast(text) ==
    text[CHOOSE i \in 1..Len(text) :
            text[i].t = "(int)" /\ \A j \in (i + 1)..Len(text) : text[j].t # "(int)"].y
\* Number(contentRaw.match(/\((\d+)\)/)[0] without its parentheses): the
\* first parenthesized integer of the text
match(text) ==
    text[CHOOSE i \in 1..Len(text) :
            text[i].t = "(int)" /\ \A j \in 1..(i - 1) : text[j].t # "(int)"].y

\* the step of stripHTMLElementsAndDecorateText that counts the years:
\* nothing without the token; match() is null and [0] throws when the text
\* has no parenthesized integer; otherwise replace('<<YEARSAGO>>', ...)
\* replaces the first token
CountYearsAgo ==
    /\ ~yearsAgo.done
    /\ yearsAgo' =
         IF ~includesYEARSAGO(yearsAgo.text)
         THEN [yearsAgo EXCEPT !.done = TRUE, !.result = yearsAgo.text]
         ELSE IF \A i \in 1..Len(yearsAgo.text) : yearsAgo.text[i].t # "(int)"
         THEN [yearsAgo EXCEPT !.done = TRUE, !.threw = TRUE]
         ELSE LET at == CHOOSE i \in 1..Len(yearsAgo.text) :
                            /\ yearsAgo.text[i] = YEARSAGO
                            /\ \A j \in 1..(i - 1) : yearsAgo.text[j] # YEARSAGO
              IN  [yearsAgo EXCEPT
                     !.done = TRUE,
                     !.result = [yearsAgo.text EXCEPT
                        ![at] = YearsAgoText(yearsAgo.utcYear - match(yearsAgo.text))]]
    /\ UNCHANGED <<main, logger, markCall, paragraph, facetCall>>

InitYearsAgo ==
    /\ MainIdle
    /\ IdleExcept("yearsAgo")
    /\ yearsAgo \in
        {Uncounted(text, year) :
            text \in SeqsUpTo({[t |-> "word", y |-> 0], YEARSAGO, [t |-> "(text)", y |-> 0],
                               ParenInt(1827), ParenInt(1901)}, MaxTokens),
            year \in {2025, 2026}}

NextYearsAgo == CountYearsAgo

YearsAgoSpec == InitYearsAgo /\ [][NextYearsAgo]_vars

\* ------------------------------------------------------------------------
\* The facets preparePost makes for the links (bluesky.ts) on their own
\* ------------------------------------------------------------------------
\* A JavaScript string is a sequence of UTF-16 code units: two ASCII
\* letters, a letter of two UTF-8 bytes, and the high and low surrogate of
\* a character outside the basic plane (an emoji, four UTF-8 bytes).
\* The final texts of a post are not empty, and in them every high
\* surrogate is followed by a low one and every low one follows a high one.
FinalTexts ==
    {str \in SeqsUpTo({"a", "b", "e'", "H", "L"}, MaxChars) :
        /\ Len(str) >= 1
        /\ \A i \in 1..Len(str) :
            /\ str[i] = "H" => (i < Len(str) /\ str[i + 1] = "L")
            /\ str[i] = "L" => (i > 1 /\ str[i - 1] = "H")}

\* TextEncoder.encode: the UTF-8 bytes of a string; a surrogate pair is one
\* character of four bytes, a surrogate on its own is encoded as U+FFFD
RECURSIVE utf8(_)
utf8(str) ==
    IF Len(str) = 0 THEN <<>>
    ELSE IF str[1] = "H" /\ Len(str) >= 2 /\ str[2] = "L"
         THEN <<"p1", "p2", "p3", "p4">> \o utf8(SubSeq(str, 3, Len(str)))
    ELSE IF str[1] \in {"H", "L"}
         THEN <<"fffd1", "fffd2", "fffd3">> \o utf8(Tail(str))
    ELSE IF str[1] = "e'"
         THEN <<"e1", "e2">> \o utf8(Tail(str))
    ELSE <<str[1]>> \o utf8(Tail(str))

\* UnicodeString.length: the number of UTF-8 bytes
length(str) == Len(utf8(str))

\* String.indexOf(sub): the index, from 0, of the first occurrence of sub,
\* -1 when there is none
textIndexOf(str, sub) ==
    LET at(i) == i + Len(sub) <= Len(str) /\ SubSeq(str, i + 1, i + Len(sub)) = sub
    IN  IF \E i \in 0..Len(str) : at(i)
        THEN CHOOSE i \in 0..Len(str) : at(i) /\ \A j \in 0..(i - 1) : ~at(j)
        ELSE 0 - 1

\* the UTF-16 index taken as the UTF-8 index
utf16IndexAsUtf8Index(str, i) == i
\* UnicodeString.utf16IndexToUtf8Index(i): the bytes of utf16.slice(0, i),
\* where a negative i counts from the end
utf16IndexToUtf8Index(str, i) ==
    length(IF i >= 0 THEN SubSeq(str, 1, IF i <= Len(str) THEN i ELSE Len(str))
           ELSE SubSeq(str, 1, IF Len(str) + i > 0 THEN Len(str) + i ELSE 0))

\* the facet of one link (lines 137-160)
customFacet(str, link) ==
    LET start == utf16IndexToUtf8Index(str, textIndexOf(str, link.text))
    IN  [byteStart |-> start, byteEnd |-> start + length(link.text), uri |-> link.url]

\* the loop of preparePost over the link collection, no facet having been
\* detected automatically
PrepareFacets ==
    /\ ~facetCall.done
    /\ facetCall.text # <<>>
    /\ facetCall' = [facetCall EXCEPT
            !.done = TRUE,
            !.facets = [n \in 1..Len(facetCall.links) |->
                            customFacet(facetCall.text, facetCall.links[n])]]
    /\ UNCHANGED <<main, logger, markCall, paragraph, yearsAgo>>

\* the links carry one of five display texts, the n-th link points at the
\* n-th url
InitFacet ==
    /\ MainIdle
    /\ IdleExcept("facetCall")
    /\ facetCall \in
        {Unprepared(str, [n \in 1..Len(texts) |-> [text |-> texts[n], url |-> n]]) :
            str \in FinalTexts,
            texts \in SeqsUpTo({<<"a">>, <<"b">>, <<"a", "b">>, <<"b", "a">>, <<"e'">>},
                               MaxLinks)}

NextFacet == PrepareFacets

FacetSpec == InitFacet /\ [][NextFacet]_vars

\* ------------------------------------------------------------------------
\* markArticleContentAsPosted (utils.ts) on its own
\* ------------------------------------------------------------------------
\* markArticleContentAsPosted(article, content) with the content at
\* position k of the stored article; load and save succeed
markArticleContentAsPosted(id, k) ==
    /\ ~markCall.called
    /\ articlesFile.st = "ok"
    /\ FindArticle(articlesFile.list, id) # NullArticle
    /\ k \in 1..Len(FindArticle(articlesFile.list, id).contentList)
    /\ LET loadedArticles == loadArticles(articlesFile, "ok")
           value == FindArticle(loadedArticles, id).contentList[k].value
       IN  articlesFile' = saveToJSON(articlesFile, MarkArticles(loadedArticles, id, value), "ok")
    /\ markCall' = [called |-> TRUE, before |-> articlesFile.list, id |-> id, k |-> k]
    /\ UNCHANGED <<logger, paragraph, yearsAgo, facetCall, clock, DEBUG_MODE, feed, postsFile, session,
                   remote, run, last, nRuns, alive>>

\* the stores the call is examined on: yesterday's article and an article
\* of today whose units behind the today-text carry one of two texts, are of
\* either kind, posted or not (two units may carry the same text)
InitMark ==
    /\ IdleExcept("none")
    /\ clock = Noon
    /\ DEBUG_MODE = FALSE
    /\ feed = <<>>
    /\ articlesFile \in
        {File("ok", <<YesterdaysArticle,
                      Article(Today, "link", <<TodayTextOfFetch(YesterdaysDoc)>> \o units)>>) :
            units \in SeqsUpTo(
                {Content(type, Fragment("li", n, "plain"), "null", posted) :
                    type \in {"event", "anniversary"}, n \in 1..2, posted \in BOOLEAN},
                MaxUnits)}
    /\ postsFile = File("missing", <<>>)
    /\ session = FALSE
    /\ remote = <<>>
    /\ run = [r \in Runs |-> IdleRun]
    /\ last = NoSummary
    /\ nRuns = 0
    /\ alive = TRUE

NextMark == \E id \in {Yesterday, Today}, k \in 1..(MaxUnits + 1) : markArticleContentAsPosted(id, k)

MarkSpec == InitMark /\ [][NextMark]_vars


Init ==
    /\ IdleExcept("none")
    /\ clock = Noon
    /\ DEBUG_MODE \in BOOLEAN
    /\ feed \in Feeds
    /\ articlesFile \in InitialArticlesFiles
    /\ postsFile = File("missing", <<>>)
    /\ session = FALSE
    /\ remote = <<>>
    /\ run = [r \in Runs |-> IdleRun]
    /\ last = NoSummary
    /\ nRuns = 0
    /\ alive = TRUE

\* ------------------------------------------------------------------------
\* runBot (app.ts), one action per await point
\* ------------------------------------------------------------------------
\* the hours between which the bot may start, when the environment does
\* not set them
EARLIEST_START_HOUR == 6
LATEST_START_HOUR == 22

\* InWindow without the test of the latest hour
InWindowNoLatest(h) == ~(h < EARLIEST_START_HOUR)

\* the test of the scheduler callback (lines 144 and 158), negated: the
\* hour is neither too early nor too late
InWindow(h) == ~(h < EARLIEST_START_HOUR \/ h > LATEST_START_HOUR)

\* the slot a new invocation takes: the first one that is free
FirstIdle(r) == run[r].pc = "idle" /\ \A q \in Runs : q < r => run[q].pc # "idle"

\* the scheduler callback fires inside the allowed hours and calls runBot
\* while no other invocation is in flight
StartRun(r) ==
    /\ alive
    /\ \A q \in Runs : run[q].pc = "idle"
    /\ FirstIdle(r)
    /\ nRuns < MaxRuns
    /\ InWindow(getHours(clock))
    /\ nRuns' = nRuns + 1
    /\ run' = [run EXCEPT ![r] =
                [IdleRun EXCEPT !.pc = "login", !.trigger = "run", !.remote0 = remote,
                                !.articles0 = articlesFile, !.posts0 = postsFile]]
    /\ UNCHANGED <<pure, clock, DEBUG_MODE, feed, articlesFile, postsFile, session, remote, last, alive>>

\* the scheduler callback fires inside the allowed hours while an earlier
\* invocation has not returned: runBot is called all the same, the callback
\* neither awaits the promise of runBot nor looks whether one is pending
StartOverlapping(r) ==
    /\ alive
    /\ \E q \in Runs : run[q].pc # "idle"
    /\ FirstIdle(r)
    /\ nRuns < MaxRuns
    /\ InWindow(getHours(clock))
    /\ nRuns' = nRuns + 1
    /\ run' = [run EXCEPT ![r] =
                [IdleRun EXCEPT !.pc = "login", !.trigger = "run", !.remote0 = remote,
                                !.articles0 = articlesFile, !.posts0 = postsFile]]
    /\ UNCHANGED <<pure, clock, DEBUG_MODE, feed, articlesFile, postsFile, session, remote, last, alive>>

\* the scheduler callback fires outside the allowed hours: it logs that
\* the bot will not run and returns
SkipTrigger ==
    /\ alive
    /\ \A q \in Runs : run[q].pc = "idle"
    /\ ~InWindow(getHours(clock))
    /\ last' = [NoSummary EXCEPT !.trigger = "skipped"]
    /\ UNCHANGED <<pure, clock, DEBUG_MODE, feed, articlesFile, postsFile, session, remote,
                   run, nRuns, alive>>

\* SkipLogin without the test of DEBUG_MODE
SkipLoginNever(debug) == debug /\ ~debug

\* the login is skipped in debug mode (app.ts line 26, bluesky.ts line 32)
SkipLogin(debug) == debug

\* line 26: if (!DEBUG_MODE) await loginToBluesky(); a failed login is
\* logged and swallowed
Login(r, outs) ==
    /\ alive
    /\ run[r].pc = "login"
    /\ IF SkipLogin(DEBUG_MODE)
       THEN /\ session' = session
            /\ run' = [run EXCEPT ![r].pc = "load"]
       ELSE /\ \E o \in outs : session' = (o = "ok")
            /\ run' = [run EXCEPT ![r].agentCalls = @ + 1, ![r].pc = "load"]
    /\ UNCHANGED <<pure, clock, DEBUG_MODE, feed, articlesFile, postsFile, remote, last, nRuns, alive>>

\* lines 29-41: loadArticles, find the article of today, choose the branch
LoadArticles(r, ios) ==
    /\ alive
    /\ run[r].pc = "load"
    /\ \E io \in ios :
        LET articles == loadArticles(articlesFile, io)
            articleOfToday == FindArticle(articles, todayISO)
        IN  /\ articlesFile' = loadFromJSON_file(articlesFile, io)
            /\ run' = [run EXCEPT
                        ![r].articleOfToday = articleOfToday,
                        ![r].branch = IF articleOfToday = NullArticle THEN "new" ELSE "stored",
                        ![r].idx = 1,
                        ![r].pc = IF articleOfToday = NullArticle THEN "fetch" ELSE "scan"]
    /\ UNCHANGED <<pure, clock, DEBUG_MODE, feed, postsFile, session, remote, last, nRuns, alive>>

\* AfterFetch without the failure on a null article
AfterFetchNoCheck(fetched) == "saveRead"

\* where runBot goes after line 46: a null article makes line 47 throw,
\* which the catch block of runBot logs; otherwise the article is saved
AfterFetch(fetched) == IF fetched = NullArticle THEN "done" ELSE "saveRead"

\* lines 46-50: fetchOnThisDayArticle, null when the feed could not be
\* fetched or parsed or holds no item dated today
Fetch(r, outs) ==
    /\ alive
    /\ run[r].pc = "fetch"
    /\ \E o \in outs :
        LET fetched == IF o = "ok" THEN ArticleOfFeed(feed) ELSE NullArticle
        IN  run' = [run EXCEPT
                        ![r].fetched = fetched,
                        ![r].error = (AfterFetch(fetched) = "done"),
                        ![r].pc = AfterFetch(fetched)]
    /\ UNCHANGED <<pure, clock, DEBUG_MODE, feed, articlesFile, postsFile, session, remote, last, nRuns, alive>>

\* ArticleExists finding no article
ArticleExistsNever(list, id) == FindArticle(list, id) # FindArticle(list, id)

\* line 592: the loaded list already holds an article with this id
ArticleExists(list, id) == FindArticle(list, id) # NullArticle

\* saveArticleToJSON up to line 594: load the file, return when the id is
\* already there or when nothing could be loaded (the TypeError is logged)
SaveArticleRead(r, ios) ==
    /\ alive
    /\ run[r].pc = "saveRead"
    /\ \E io \in ios :
        LET defined == loadFromJSON_defined(articlesFile, io)
            list == loadFromJSON_list(articlesFile, io)
        IN  /\ articlesFile' = loadFromJSON_file(articlesFile, io)
            /\ run' = [run EXCEPT
                        ![r].json = IF defined THEN list ELSE <<>>,
                        ![r].pc = IF defined /\ ~ArticleExists(list, run[r].fetched.id)
                                  THEN "saveWrite" ELSE "loadSaved"]
    /\ UNCHANGED <<pure, clock, DEBUG_MODE, feed, postsFile, session, remote, last, nRuns, alive>>

\* newArticle without its contents
newArticleWithoutContents(article) == Article(article.id, article.url, <<>>)

\* line 583: the article that is saved is the whole article, contents included
newArticle(article) == Article(article.id, article.url, article.contentList)

\* saveArticleToJSON lines 595-596: push the article and rewrite the file
SaveArticleWrite(r, ios) ==
    /\ alive
    /\ run[r].pc = "saveWrite"
    /\ \E io \in ios :
        articlesFile' = saveToJSON(articlesFile,
                                   Append(run[r].json, newArticle(run[r].fetched)), io)
    /\ run' = [run EXCEPT ![r].pc = "loadSaved"]
    /\ UNCHANGED <<pure, clock, DEBUG_MODE, feed, postsFile, session, remote, last, nRuns, alive>>

\* FirstRealContent without the skipping of today-text units
FirstRealContentNoSkip(contentList) == 0 * Len(contentList)

\* number of today-text units before the first other unit (lines 57-75)
RECURSIVE FirstRealContent(_)
FirstRealContent(contentList) ==
    IF contentList = <<>> \/ Head(contentList).type # "todayText" THEN 0
    ELSE 1 + FirstRealContent(Tail(contentList))

\* contentList[i] of JavaScript, i counted from 0
At(contentList, i) ==
    IF i + 1 \in 1..Len(contentList) THEN contentList[i + 1] ELSE UndefinedContent

\* lines 61-84: load the saved article, find its first real content and
\* call sanitizeAndPostContent; a null article makes line 62 throw
LoadSavedArticle(r, ios) ==
    /\ alive
    /\ run[r].pc = "loadSaved"
    /\ \E io \in ios :
        LET savedArticle == loadArticle(articlesFile, io, run[r].fetched.id)
        IN  /\ articlesFile' = loadFromJSON_file(articlesFile, io)
            /\ IF savedArticle = NullArticle
               THEN run' = [run EXCEPT ![r].error = TRUE, ![r].pc = "done"]
               ELSE run' = [run EXCEPT
                        ![r].content = At(savedArticle.contentList,
                                          FirstRealContent(savedArticle.contentList)),
                        ![r].selected = TRUE,
                        ![r].pc = "prefix"]
    /\ UNCHANGED <<pure, clock, DEBUG_MODE, feed, postsFile, session, remote, last, nRuns, alive>>

\* line 99: the content is new and is not the today-text
IsFresh(content) == ~content.alreadyPosted /\ content.type # "todayText"

\* one iteration of the loop of lines 93-118, and lines 120-121 after it
ScanContent(r, ios) ==
    /\ alive
    /\ run[r].pc = "scan"
    /\ LET contentList == run[r].articleOfToday.contentList
           i == run[r].idx
       IN  IF i > Len(contentList)
           THEN /\ run' = [run EXCEPT
                            ![r].allPostedLogged = ~run[r].freshContentFound,
                            ![r].pc = "done"]
                /\ UNCHANGED articlesFile
           ELSE IF IsFresh(contentList[i])
           THEN /\ run' = [run EXCEPT
                            ![r].freshContentFound = TRUE,
                            ![r].content = contentList[i],
                            ![r].selected = TRUE,
                            ![r].idx = i + 1,
                            ![r].pc = "prefix"]
                /\ UNCHANGED articlesFile
           ELSE IF ~contentList[i].alreadyPosted /\ contentList[i].type = "todayText"
           THEN \E ioR \in ios, ioW \in ios :
                    LET loaded == loadArticles(articlesFile, ioR)
                        id == run[r].articleOfToday.id
                        afterLoad == loadFromJSON_file(articlesFile, ioR)
                    IN  IF MarkThrows(loaded, id, contentList[i].value)
                        THEN /\ articlesFile' = afterLoad
                             /\ run' = [run EXCEPT ![r].error = TRUE, ![r].pc = "done"]
                        ELSE /\ articlesFile' =
                                    saveToJSON(afterLoad,
                                               MarkArticles(loaded, id, contentList[i].value), ioW)
                             /\ run' = [run EXCEPT ![r].idx = i + 1]
           ELSE /\ run' = [run EXCEPT ![r].idx = i + 1]
                /\ UNCHANGED articlesFile
    /\ UNCHANGED <<pure, clock, DEBUG_MODE, feed, postsFile, session, remote, last, nRuns, alive>>

\* ------------------------------------------------------------------------
\* sanitizeAndPostContent (bluesky.ts), one action per await point
\* ------------------------------------------------------------------------
\* the article argument: fetchedArticleOfToday in the new-article branch,
\* articleOfToday in the stored-article branch
ArticleArg(rr) == IF rr.branch = "new" THEN rr.fetched ELSE rr.articleOfToday

\* AfterPost without the break of line 113
AfterPostNoBreak(rr) == IF rr.branch = "stored" THEN "scan" ELSE "done"

\* where runBot goes once sanitizeAndPostContent has returned: the end of
\* the new-article branch, and the break of line 113 in the other
AfterPost(rr) == "done"

\* sanitizeAndPostContent returned false: runBot logs the critical message
ReturnFalse(r) ==
    run' = [run EXCEPT ![r].postSuccessful = "false", ![r].critical = TRUE,
                       ![r].pc = AfterPost(run[r])]

\* sanitizeAndPostContent returned true (line 227)
ReturnTrue(r) ==
    run' = [run EXCEPT ![r].postSuccessful = "true", ![r].pc = AfterPost(run[r])]

\* lines 199-206: prefixText (which loads the article's contents from the
\* file) and stripHTMLElementsAndDecorateText; what they throw is caught at
\* line 222
Sanitize(r, ios) ==
    /\ alive
    /\ run[r].pc = "prefix"
    /\ \E io \in ios :
        LET contentList == loadArticle(articlesFile, io, ArticleArg(run[r]).id).contentList
        IN  /\ articlesFile' = loadFromJSON_file(articlesFile, io)
            /\ IF prefixTextThrows(contentList, run[r].content) \/ stripThrows(run[r].content)
               THEN ReturnFalse(r)
               ELSE run' = [run EXCEPT
                        ![r].rawText = prefixText(contentList, run[r].content),
                        ![r].pc = "prepare"]
    /\ UNCHANGED <<pure, clock, DEBUG_MODE, feed, postsFile, session, remote, last, nRuns, alive>>

\* line 209: preparePost; with an agent it detects facets over the network,
\* and rethrows what that throws
PreparePost(r, outs) ==
    /\ alive
    /\ run[r].pc = "prepare"
    /\ LET built == [run EXCEPT ![r].post = preparePost(run[r].rawText, NowISO(nRuns)),
                                ![r].pc = "post"]
       IN  IF DEBUG_MODE
           THEN run' = built
           ELSE \E o \in outs : IF o = "ok" THEN run' = built ELSE ReturnFalse(r)
    /\ UNCHANGED <<pure, clock, DEBUG_MODE, feed, articlesFile, postsFile, session, remote, last, nRuns, alive>>

\* postToBluesky up to line 69: in debug mode nothing is sent; otherwise
\* agent.post creates the post or throws, and what it throws is caught and
\* logged as a warning inside postToBluesky, which returns normally
PostToBluesky(r, outs) ==
    /\ alive
    /\ run[r].pc = "post"
    /\ IF DEBUG_MODE
       THEN /\ run' = [run EXCEPT ![r].calls = @ + 1, ![r].pc = "savePost"]
            /\ UNCHANGED remote
       ELSE \E o \in outs :
                IF o = "ok" /\ session
                THEN /\ remote' = Append(remote, run[r].post)
                     /\ run' = [run EXCEPT ![r].calls = @ + 1, ![r].created = TRUE,
                                           ![r].agentCalls = @ + 1,
                                           ![r].pc = "savePost"]
                ELSE /\ UNCHANGED remote
                     /\ run' = [run EXCEPT ![r].calls = @ + 1,
                                           ![r].agentCalls = @ + 1,
                                           ![r].postSuccessful = "true",
                                           ![r].pc = AfterPost(run[r])]
    /\ UNCHANGED <<pure, clock, DEBUG_MODE, feed, articlesFile, postsFile, session, last, nRuns, alive>>

\* pArr with the new post alone
pArrNewPostOnly(posts, newPost) == <<newPost>>

\* pArr of savePostToJSON (lines 1314-1321): the posts of the file, copied
\* in order when there are any, then the new post
pArr(posts, newPost) ==
    (IF Len(posts) > 0 THEN [i \in 1..Len(posts) |-> posts[i]] ELSE <<>>) \o <<newPost>>

\* savePostToJSON: load posts.json, append the record, rewrite the file;
\* when nothing could be loaded the TypeError is logged and nothing is written
SavePost(r, ios) ==
    /\ alive
    /\ run[r].pc = "savePost"
    /\ \E ioR \in ios, ioW \in ios :
        LET afterLoad == loadFromJSON_file(postsFile, ioR)
        IN  postsFile' =
                IF loadFromJSON_defined(postsFile, ioR)
                THEN saveToJSON(afterLoad,
                                pArr(loadFromJSON_list(postsFile, ioR), run[r].post), ioW)
                ELSE afterLoad
    /\ ReturnTrue(r)
    /\ UNCHANGED <<pure, clock, DEBUG_MODE, feed, articlesFile, session, remote, last, nRuns, alive>>

\* line 126: 'Bot stopped...', the promise of runBot resolves
EndRun(r) ==
    /\ alive
    /\ run[r].pc = "done"
    /\ last' = Summary(run[r])
    /\ run' = [run EXCEPT ![r] = IdleRun]
    /\ UNCHANGED <<pure, clock, DEBUG_MODE, feed, articlesFile, postsFile, session, remote, nRuns, alive>>

\* log (utils.ts): appending to the log file fails, log rethrows, and since
\* no caller awaits log the rejection is unhandled: node terminates
LogRejects(r) ==
    /\ alive
    /\ run[r].pc # "idle"
    /\ alive' = FALSE
    /\ UNCHANGED <<pure, clock, DEBUG_MODE, feed, articlesFile, postsFile, session, remote, run, last, nRuns>>

\* ------------------------------------------------------------------------
\* Specifications
\* ------------------------------------------------------------------------
\* the invocations with the outcomes of their collaborators drawn from outs
Steps(r, outs) ==
    \/ StartRun(r)
    \/ Login(r, outs)
    \/ LoadArticles(r, outs)
    \/ Fetch(r, outs)
    \/ SaveArticleRead(r, outs)
    \/ SaveArticleWrite(r, outs)
    \/ LoadSavedArticle(r, outs)
    \/ ScanContent(r, outs)
    \/ Sanitize(r, outs)
    \/ PreparePost(r, outs)
    \/ PostToBluesky(r, outs)
    \/ SavePost(r, outs)
    \/ EndRun(r)

\* non-overlapping invocations, collaborators that may fail
Next == \E r \in Runs : Steps(r, Outcomes) \/ LogRejects(r)

Spec == Init /\ [][Next]_vars

\* feed, store and posting collaborator all work: every call succeeds, the
\* articles file parses or is absent, and the scheduler keeps firing
InitWorking == Init /\ articlesFile.st # "corrupt"

NextWorking == \E r \in Runs : Steps(r, {"ok"})

WorkingSpec == InitWorking /\ [][NextWorking]_vars /\ WF_vars(NextWorking)

\* every call succeeds, whatever state articles.json is in at the start
RecoverySpec == Init /\ [][NextWorking]_vars

\* the scheduler fires whether or not an earlier invocation has returned,
\* and every call succeeds
NextOverlap == \E r \in Runs : Steps(r, {"ok"}) \/ StartOverlapping(r)

\* for the overlapping invocations one digest is enough: a holiday and an
\* event behind the today-text
InitOverlap ==
    /\ Init
    /\ feed = <<FeedItem(Yesterday, YesterdaysDoc), FeedItem(Today, YesterdaysDoc)>>
    /\ articlesFile.st # "corrupt"

OverlapSpec == InitOverlap /\ [][NextOverlap]_vars

\* the scheduler fires at any hour of the day, in any of the zones, and
\* every call succeeds
InitCron ==
    /\ IdleExcept("none")
    /\ clock \in Clocks
    /\ DEBUG_MODE \in BOOLEAN
    /\ feed \in Feeds
    /\ articlesFile \in InitialArticlesFiles
    /\ postsFile = File("missing", <<>>)
    /\ session = FALSE
    /\ remote = <<>>
    /\ run = [r \in Runs |-> IdleRun]
    /\ last = NoSummary
    /\ nRuns = 0
    /\ alive = TRUE

NextCron == NextWorking \/ SkipTrigger

CronSpec == InitCron /\ [][NextCron]_vars

\* the feed selector over feeds of up to MaxItems items whose timestamps
\* are those of yesterday, today and tomorrow, today's instant written with
\* a zone offset, and one that cannot be parsed; the digest of an item
\* tells its position in the feed
ItemDoc(i) ==
    [colon |-> (i % 2 = 0), nHol |-> (IF i % 2 = 0 THEN 1 ELSE 0),
     lis |-> [j \in 1..((i \div 2) % 2) |-> "plain"], annivs |-> <<>>]

ItemDates == {Yesterday, Today, Tomorrow, TodayOffset, InvalidDate}

RichFeeds ==
    {[i \in 1..k |-> FeedItem(dates[i], ItemDoc(i))] :
        k \in 0..MaxItems, dates \in [1..MaxItems -> ItemDates]}

InitSelector ==
    /\ IdleExcept("none")
    /\ clock \in Clocks
    /\ DEBUG_MODE \in BOOLEAN
    /\ feed \in RichFeeds
    /\ articlesFile = File("missing", <<>>)
    /\ postsFile = File("missing", <<>>)
    /\ session = FALSE
    /\ remote = <<>>
    /\ run = [r \in Runs |-> IdleRun]
    /\ last = NoSummary
    /\ nRuns = 0
    /\ alive = TRUE

NextSelector ==
    \E r \in Runs :
        \/ StartRun(r)
        \/ Login(r, {"ok"})
        \/ LoadArticles(r, {"ok"})
        \/ Fetch(r, {"ok"})

SelectorSpec == InitSelector /\ [][NextSelector]_vars

\* the process starts with today's article in the store as an earlier
\* launch left it (all units but the today-text unposted, nothing published),
\* and every call succeeds
InitStored ==
    /\ IdleExcept("none")
    /\ clock = Noon
    /\ DEBUG_MODE \in BOOLEAN
    /\ feed \in Feeds
    /\ ArticleOfFeed(feed) # NullArticle
    /\ articlesFile = File("ok", <<ArticleOfFeed(feed)>>)
    /\ postsFile = File("missing", <<>>)
    /\ session = FALSE
    /\ remote = <<>>
    /\ run = [r \in Runs |-> IdleRun]
    /\ last = NoSummary
    /\ nRuns = 0
    /\ alive = TRUE

NextStored ==
    \E r \in Runs :
        \/ StartRun(r)
        \/ Login(r, {"ok"})
        \/ LoadArticles(r, {"ok"})
        \/ ScanContent(r, {"ok"})
        \/ Sanitize(r, {"ok"})
        \/ PreparePost(r, {"ok"})
        \/ PostToBluesky(r, {"ok"})
        \/ SavePost(r, {"ok"})
        \/ EndRun(r)

StoredSpec == InitStored /\ [][NextStored]_vars

\* ------------------------------------------------------------------------
\* Vocabulary of the properties
\* ------------------------------------------------------------------------
Min(a, b) == IF a <= b THEN a ELSE b

AllIdle == \A r \in Runs : run[r].pc = "idle"

\* what has been published: the posts on Bluesky, in dry-run mode the
\* would-be posts of posts.json
PostedLog == IF DEBUG_MODE THEN postsFile.list ELSE remote

\* the article of today in the store, null when there is none
StoredToday == FindArticle(articlesFile.list, todayISO)

IsRealUnit(content) == content.type # "todayText"
IsUnposted(content) == IsFresh(content)

\* the units of an article other than the today-text
RealUnits(article) == SelectSeq(article.contentList, IsRealUnit)

\* every unit of the article gets through the sanitizer
Sanitizable(article) ==
    \A i \in 1..Len(article.contentList) : ~stripThrows(article.contentList[i])

\* Complete: every unit other than the today-text is flagged posted
Complete(article) == SelectSeq(article.contentList, IsUnposted) = <<>>

\* the unit with this value has been published
Published(value) == \E i \in 1..Len(PostedLog) : PostedLog[i].text.body = value

\* the stored article of today flags the unit with this value as posted
FlaggedInStore(value) ==
    \E i \in 1..Len(StoredToday.contentList) :
        /\ StoredToday.contentList[i].value = value
        /\ StoredToday.contentList[i].alreadyPosted

\* the invocation called postToBluesky and no post was created
PostFailed(rr) == rr.calls = 1 /\ ~rr.created

\* the stored article with the id of the article the invocation works on
StoredArticleOf(rr) == FindArticle(articlesFile.list, ArticleArg(rr).id)

\* s is a prefix of t
IsPrefix(s, t) == Len(s) <= Len(t) /\ \A i \in 1..Len(s) : s[i] = t[i]

\* the order of the fragments in the digest: the paragraph with the
\* holidays, then the list of the events, then the list of the anniversaries,
\* and inside each of them the order of the document
SrcRank(src) == IF src = "p" THEN 0 ELSE IF src = "li" THEN 1 ELSE 2

PrecedesInDigest(f, g) ==
    \/ SrcRank(f.src) < SrcRank(g.src)
    \/ SrcRank(f.src) = SrcRank(g.src) /\ f.n < g.n

\* the order in which fetchOnThisDayArticle pushes the kinds
KindRank(type) ==
    IF type = "todayText" THEN 0
    ELSE IF type = "holiday" THEN 1
    ELSE IF type = "featuredEvent" THEN 2
    ELSE IF type = "event" THEN 3 ELSE 4

\* the hour is one at which the bot may start
AllowedHour(h) == EARLIEST_START_HOUR <= h /\ h <= LATEST_START_HOUR

\* the positions of the feed whose timestamp denotes today's midnight UTC
\* (in the normal form or with a zone offset)
TodaysItems(items) ==
    {i \in 1..Len(items) : items[i].isoDate \in {Today, TodayOffset}}

\* ------------------------------------------------------------------------
\* Properties
\* ------------------------------------------------------------------------
\* C1: starting from a stored article of today with N units other than the
\* today-text, all unposted, and with every call succeeding, the first N
\* invocations post one unit each and the next one posts nothing: after k
\* completed invocations min(k, N) posts have been made.
C1_NRunsPostNUnits ==
    (AllIdle /\ Sanitizable(StoredToday))
        => Len(PostedLog) = Min(nRuns, Len(RealUnits(StoredToday)))

\* C2: a unit that has been published is never selected for posting again.
C2_NoDuplicatePosting ==
    \A r \in Runs :
        (run[r].selected /\ run[r].pc \in {"prefix", "prepare", "post"})
            => ~Published(run[r].content.value)

\* C3: one invocation of runBot calls postToBluesky at most once.
C3_AtMostOnePostPerRun == \A r \in Runs : run[r].calls <= 1

\* an invocation over a stored article with two unposted units has ended
\* after one call of postToBluesky
C3_Witness ==
    \E r \in Runs :
        /\ run[r].pc = "done"
        /\ run[r].branch = "stored"
        /\ run[r].calls = 1
        /\ Len(SelectSeq(run[r].articleOfToday.contentList, IsUnposted)) >= 2

\* C4: when the post of a unit succeeded, the stored article flags that unit
\* as posted at the end of the invocation.
C4_PostedUnitIsMarked ==
    \A r \in Runs :
        (run[r].pc = "done" /\ run[r].created) => FlaggedInStore(run[r].content.value)

\* C5: with all collaborators working, repeated invocations publish every
\* unit of today's article other than the today-text, skipping none, and the
\* article becomes Complete: one unit being due per invocation, this has
\* happened once more invocations have completed than the article has units.
C5_EveryUnitEventuallyPosted ==
    (/\ AllIdle
     /\ ArticleOfFeed(feed) # NullArticle
     /\ Sanitizable(ArticleOfFeed(feed))
     /\ nRuns > Len(RealUnits(ArticleOfFeed(feed))))
        => /\ \A i \in 1..Len(RealUnits(ArticleOfFeed(feed))) :
                Published(RealUnits(ArticleOfFeed(feed))[i].value)
           /\ StoredToday # NullArticle
           /\ Complete(StoredToday)

\* C6: when the posting call of an invocation failed, the unit it selected
\* is still flagged unposted in the store at the end of that invocation, and
\* the unit the next invocation selects is that same unit.
C6_FailedPostIsRetried ==
    /\ \A r \in Runs :
        (run[r].pc = "done" /\ PostFailed(run[r]) /\ ~DEBUG_MODE)
            => ~FlaggedInStore(run[r].content.value)
    /\ \A r \in Runs :
        (run[r].selected /\ PostFailed(last) /\ ~DEBUG_MODE)
            => run[r].content = last.content

\* the invocation after a failed post has selected the unit again
C6_Witness ==
    \E r \in Runs :
        /\ run[r].selected
        /\ PostFailed(last)
        /\ ~DEBUG_MODE
        /\ run[r].content = last.content
        /\ IsRealUnit(run[r].content)
        /\ run[r].content # UndefinedContent

\* C7: sanitizeAndPostContent returns true only when the post was created
\* and false whenever it was not, and runBot logs the critical message
\* exactly when it returned false.
C7_FailureIsReported ==
    \A r \in Runs :
        (run[r].pc = "done" /\ run[r].selected /\ ~DEBUG_MODE)
            => /\ (run[r].postSuccessful = "true") <=> run[r].created
               /\ run[r].critical <=> ~run[r].created

C9_ProcessStaysAlive == alive

C11_PersistedBeforePosted ==
    /\ \A r \in Runs :
        (run[r].branch = "new" /\ run[r].selected)
            => /\ StoredArticleOf(run[r]) = run[r].fetched
               /\ \A i \in 1..Len(StoredArticleOf(run[r]).contentList) :
                    IsRealUnit(StoredArticleOf(run[r]).contentList[i])
                        => ~StoredArticleOf(run[r]).contentList[i].alreadyPosted
               /\ run[r].calls >= 1 => run[r].content = RealUnits(run[r].fetched)[1]
    /\ \A r \in Runs :
        run[r].calls >= 1
            => \E i \in 1..Len(StoredArticleOf(run[r]).contentList) :
                    StoredArticleOf(run[r]).contentList[i] = run[r].content

\* an invocation that found no article of today in the store has saved the
\* fetched article and published its first unit
C11_Witness ==
    \E r \in Runs :
        /\ run[r].branch = "new"
        /\ FindArticle(run[r].articles0.list, todayISO) = NullArticle
        /\ StoredArticleOf(run[r]) = run[r].fetched
        /\ run[r].created
        /\ run[r].content = RealUnits(run[r].fetched)[1]

\* C12: the content handed to sanitizeAndPostContent and posted is never a
\* today-text unit; the today-text only supplies the prefix of the text, and
\* an article with no other unit leads to no call of postToBluesky.
C12_TodayTextNeverPosted ==
    \A r \in Runs :
        /\ run[r].selected => run[r].content.type # "todayText"
        /\ run[r].calls >= 1
            => /\ run[r].post.text.kind # "todayText"
               /\ run[r].post.text.body = run[r].content.value
               /\ run[r].post.text.todayText.src = "p"
               /\ run[r].post.text.todayText.n = 0
               /\ run[r].post.text.body # run[r].post.text.todayText
        /\ (run[r].selected /\ RealUnits(ArticleArg(run[r])) = <<>>) => run[r].calls = 0

\* a unit other than the today-text has been posted with the today-text as
\* the prefix of its text
C12_Witness ==
    \E r \in Runs :
        /\ run[r].calls = 1
        /\ IsRealUnit(run[r].content)
        /\ run[r].post.text.todayText = ArticleArg(run[r]).contentList[1].value
        /\ ArticleArg(run[r]).contentList[1].type = "todayText"

\* C13 as stated: the units of the stored article of today other than the
\* today-text stand in the order of their fragments in the digest.
C13_StoredInDigestOrder ==
    \A i, j \in 1..Len(StoredToday.contentList) :
        (i < j /\ IsRealUnit(StoredToday.contentList[i]))
            => PrecedesInDigest(StoredToday.contentList[i].value,
                                StoredToday.contentList[j].value)

\* C13 amended: the units are stored by kind (today-text, holidays, featured
\* events, events, anniversaries), the units of one kind in the order of
\* their fragments in the digest, and an invocation selects the first unit
\* in stored order that is unposted and not the today-text.
C13_StoredByKindAndSelectedInOrder ==
    /\ \A i, j \in 1..Len(StoredToday.contentList) :
        i < j
            => \/ KindRank(StoredToday.contentList[i].type)
                    < KindRank(StoredToday.contentList[j].type)
               \/ /\ StoredToday.contentList[i].type = StoredToday.contentList[j].type
                  /\ StoredToday.contentList[i].value.n < StoredToday.contentList[j].value.n
    /\ \A r \in Runs :
        (run[r].selected /\ run[r].content # UndefinedContent)
            => run[r].content = SelectSeq(StoredArticleOf(run[r]).contentList, IsUnposted)[1]

\* a featured event is stored before an event whose fragment comes earlier
\* in the digest, and an invocation has posted the featured event
C13_Witness ==
    \E r \in Runs :
        /\ run[r].calls = 1
        /\ run[r].content.type = "featuredEvent"
        /\ \E j \in 1..Len(StoredToday.contentList) :
            /\ StoredToday.contentList[j].type = "event"
            /\ StoredToday.contentList[j].value.n < run[r].content.value.n

\* C14: in debug mode no invocation calls agent.login or agent.post, no
\* session exists and nothing is created on Bluesky; the record that would
\* have been posted is appended to posts.json, and the invocation ends as a
\* live invocation whose post was created ends: sanitizeAndPostContent
\* returned true, no critical message, the record appended to posts.json.
C14_DryRunCallsNothing ==
    /\ DEBUG_MODE
        => /\ ~session
           /\ remote = <<>>
           /\ \A r \in Runs : run[r].agentCalls = 0 /\ ~run[r].created
    /\ \A r \in Runs :
        (run[r].pc = "done" /\ run[r].calls = 1 /\ (DEBUG_MODE \/ run[r].created))
            => /\ postsFile.list = Append(run[r].posts0.list, run[r].post)
               /\ run[r].postSuccessful = "true"
               /\ ~run[r].critical

\* a debug-mode invocation has ended with its record appended to posts.json
C14_Witness ==
    \E r \in Runs :
        /\ DEBUG_MODE
        /\ run[r].pc = "done"
        /\ run[r].calls = 1
        /\ run[r].agentCalls = 0
        /\ postsFile.list = Append(run[r].posts0.list, run[r].post)
        /\ run[r].post # NoPost

\* C15: during and after an invocation, the content posts.json had when the
\* invocation started is a prefix of its content, and at most one record
\* has been added.
C15_PostLogAppendOnly ==
    \A r \in Runs :
        run[r].pc # "idle"
            => /\ IsPrefix(run[r].posts0.list, postsFile.list)
               /\ Len(postsFile.list) <= Len(run[r].posts0.list) + 1

\* an invocation that started with a record in posts.json has ended with
\* one more record behind it
C15_Witness ==
    \E r \in Runs :
        /\ run[r].pc = "done"
        /\ Len(run[r].posts0.list) >= 1
        /\ postsFile.list = Append(run[r].posts0.list, run[r].post)

\* C16 as stated: an invocation that started with articles.json missing, empty
\* or unparseable, and whose calls all succeeded, ends with the file
\* initialized, and has gone through the new-article branch: when the feed
\* had an article of today it is in the store, and its first unit has been
\* posted when it has one that gets through the sanitizer.
C16_BadStoreIsReinitialized ==
    \A r \in Runs :
        (run[r].pc = "done" /\ run[r].articles0.st \in {"missing", "empty", "corrupt"})
            => /\ articlesFile.st = "ok"
               /\ run[r].branch = "new"
               /\ run[r].fetched # NullArticle
                    => /\ StoredToday = run[r].fetched
                       /\ (/\ RealUnits(run[r].fetched) # <<>>
                           /\ ~stripThrows(RealUnits(run[r].fetched)[1]))
                            => run[r].calls = 1

\* C16 amended: an invocation that started with articles.json missing or
\* empty, and whose calls all succeeded, ends with the file initialized and
\* has gone through the new-article branch (the article of today stored, its
\* first unit posted when it has one that gets through the sanitizer); one
\* that started with an unparseable file leaves the file as it is, stores
\* and posts nothing, and ends in the catch block of runBot when the feed
\* had an article of today.
C16_MissingOrEmptyIsReinitialized ==
    \A r \in Runs :
        /\ (run[r].pc = "done" /\ run[r].articles0.st \in {"missing", "empty"})
            => /\ articlesFile.st = "ok"
               /\ run[r].branch = "new"
               /\ run[r].fetched # NullArticle
                    => /\ StoredToday = run[r].fetched
                       /\ (/\ RealUnits(run[r].fetched) # <<>>
                           /\ ~stripThrows(RealUnits(run[r].fetched)[1]))
                            => run[r].calls = 1
        /\ (run[r].pc = "done" /\ run[r].articles0.st = "corrupt")
            => /\ articlesFile = run[r].articles0
               /\ postsFile = run[r].posts0
               /\ remote = run[r].remote0
               /\ run[r].branch = "new"
               /\ run[r].calls = 0
               /\ run[r].error

\* an invocation that started with an empty articles.json has ended with
\* the article of today stored and its first unit posted
C16_Witness ==
    \E r \in Runs :
        /\ run[r].pc = "done"
        /\ run[r].articles0.st = "empty"
        /\ articlesFile.st = "ok"
        /\ StoredToday = run[r].fetched
        /\ run[r].fetched # NullArticle
        /\ run[r].calls = 1

\* C17: no step removes a stored article or changes the id, the url or the
\* number of units of one, or the kind, the text or the image of a stored
\* unit, and no step takes a posted flag from true back to false.
C17_StoredArticlesAreKept ==
    [][\A i \in 1..Len(articlesFile.list) :
        /\ i <= Len(articlesFile'.list)
        /\ articlesFile'.list[i].id = articlesFile.list[i].id
        /\ articlesFile'.list[i].url = articlesFile.list[i].url
        /\ Len(articlesFile'.list[i].contentList) = Len(articlesFile.list[i].contentList)
        /\ \A k \in 1..Len(articlesFile.list[i].contentList) :
            /\ articlesFile'.list[i].contentList[k].type
                    = articlesFile.list[i].contentList[k].type
            /\ articlesFile'.list[i].contentList[k].value
                    = articlesFile.list[i].contentList[k].value
            /\ articlesFile'.list[i].contentList[k].img
                    = articlesFile.list[i].contentList[k].img
            /\ articlesFile.list[i].contentList[k].alreadyPosted
                    => articlesFile'.list[i].contentList[k].alreadyPosted]_vars

\* an invocation that started over a store holding yesterday's article has
\* ended with that article unchanged and today's article behind it
C17_Witness ==
    \E r \in Runs :
        /\ run[r].pc = "done"
        /\ run[r].articles0.list = <<YesterdaysArticle>>
        /\ Len(articlesFile.list) = 2
        /\ articlesFile.list[1] = YesterdaysArticle
        /\ articlesFile.list[2].id = todayISO

\* C18: an invocation is in flight only when the local hour lies between
\* EARLIEST_START_HOUR and LATEST_START_HOUR, both included; at any other
\* hour the triggers start no invocation and the store, posts.json and
\* Bluesky stay as they were when the process started.
C18_RunsOnlyInsideWindow ==
    /\ \A r \in Runs : run[r].pc # "idle" => AllowedHour(getHours(clock))
    /\ last.trigger = "run" => AllowedHour(getHours(clock))
    /\ ~AllowedHour(getHours(clock))
        => /\ nRuns = 0
           /\ AllIdle
           /\ remote = <<>>
           /\ ~session
           /\ postsFile = File("missing", <<>>)
           /\ articlesFile \in InitialArticlesFiles

\* a trigger at a local hour after the latest start hour has been skipped,
\* although the hour of the UTC clock lies inside the window
C18_Witness ==
    /\ last.trigger = "skipped"
    /\ getHours(clock) > LATEST_START_HOUR
    /\ AllowedHour(clock.utcHour)
    /\ nRuns = 0

\* C19: what fetchOnThisDayArticle returns is the article of the first item
\* of the feed whose timestamp denotes today's midnight UTC (its id is that
\* item's timestamp as the feed gives it, its units those of that item's
\* digest), and null when the feed has no such item, whatever the local
\* zone and hour are.
C19_FirstItemOfToday ==
    \A r \in Runs :
        run[r].pc \in {"saveRead", "done"}
            => IF TodaysItems(feed) = {}
               THEN run[r].fetched = NullArticle
               ELSE \E k \in TodaysItems(feed) :
                        /\ \A j \in TodaysItems(feed) : k <= j
                        /\ run[r].fetched.id = feed[k].isoDate
                        /\ run[r].fetched.contentList = BuildContentList(feed[k].contents)

\* the selector has returned today's item from behind an item of yesterday,
\* with tomorrow's item after it, on a host whose local date is not the UTC
\* date
C19_Witness ==
    \E r \in Runs :
        /\ run[r].pc = "saveRead"
        /\ Len(feed) = 3
        /\ feed[1].isoDate = Yesterday
        /\ feed[2].isoDate \in {Today, TodayOffset}
        /\ feed[3].isoDate = Tomorrow
        /\ run[r].fetched.contentList = BuildContentList(feed[2].contents)
        /\ clock.utcHour + clock.tz >= 24

\* C20: the record posted for a featured event carries the image of the
\* unit as its embed.
C20_FeaturedEventHasEmbed ==
    \A r \in Runs :
        (run[r].calls >= 1 /\ run[r].content.type = "featuredEvent")
            => run[r].post.embed = run[r].content.img

\* C22: two invocations in flight at the same time that have both selected
\* a unit have selected the same unit, and once agent.post has succeeded for
\* both of them Bluesky holds that unit twice.
C22_OverlappingRunsPostSameUnit ==
    \A r, q \in Runs :
        (/\ r # q
         /\ run[r].selected /\ run[r].content # UndefinedContent
         /\ run[q].selected /\ run[q].content # UndefinedContent)
            => /\ run[r].content = run[q].content
               /\ (run[r].created /\ run[q].created)
                    => Cardinality({i \in 1..Len(remote) :
                                        remote[i].text.body = run[r].content.value}) >= 2

\* two invocations are in flight, both found the same article of today in
\* the store, selected the same unit and had it created on Bluesky
C22_Witness ==
    \E r, q \in Runs :
        /\ r # q
        /\ run[r].pc = "savePost"
        /\ run[q].pc = "savePost"
        /\ run[r].articles0 = run[q].articles0
        /\ run[r].articleOfToday = run[q].articleOfToday
        /\ run[r].content = run[q].content
        /\ IsRealUnit(run[r].content)
        /\ run[r].created
        /\ run[q].created
        /\ Len(remote) >= 2

\* C28: articles.json never holds two articles with the same id, also when
\* invocations overlap and interleave the load and the write of
\* saveArticleToJSON.
C28_NoDuplicateArticleIds ==
    \A i, j \in 1..Len(articlesFile.list) :
        i # j => articlesFile.list[i].id # articlesFile.list[j].id

\* two invocations have both loaded a store without today's article and
\* have both written it, and the store holds it
C28_Witness ==
    \E r, q \in Runs :
        /\ r # q
        /\ run[r].branch = "new"
        /\ run[q].branch = "new"
        /\ run[r].pc \in {"loadSaved", "prefix", "prepare", "post", "savePost", "done"}
        /\ run[q].pc \in {"loadSaved", "prefix", "prepare", "post", "savePost", "done"}
        /\ ~ArticleExists(run[r].json, run[r].fetched.id)
        /\ ~ArticleExists(run[q].json, run[q].fetched.id)
        /\ run[r].articles0.st = "ok"
        /\ run[q].articles0.st = "ok"
        /\ StoredToday # NullArticle

\* C21: when LOG_TO_FILE is not set to true, log never creates the log file
\* and never appends to it, whatever the level.
C21_NoFileWithoutLogToFile ==
    logger.env # "true" => (~logger.fileExists /\ logger.file = <<>>)

\* C29: after markArticleContentAsPosted(article, u) the unit u of that
\* article is flagged posted, and every other unit of the article, another
\* unit with the same text included, and every other article are as they were.
C29_MarkChangesOneUnit ==
    markCall.called
        => /\ Len(articlesFile.list) = Len(markCall.before)
           /\ \A a \in 1..Len(markCall.before) :
                IF markCall.before[a].id # markCall.id
                THEN articlesFile.list[a] = markCall.before[a]
                ELSE articlesFile.list[a] =
                        [markCall.before[a] EXCEPT
                            !.contentList[markCall.k].alreadyPosted = TRUE]

\* the pieces of a sequence of texts put together again with a separator
RECURSIVE Join(_, _)
Join(pieces, sep) ==
    IF Len(pieces) = 0 THEN <<>>
    ELSE IF Len(pieces) = 1 THEN pieces[1]
    ELSE pieces[1] \o <<sep>> \o Join(Tail(pieces), sep)

\* C26: for a paragraph with a colon separator, TodayText is the text before
\* the first separator and the holidays are all of the text after it; for a
\* paragraph without a colon, TodayText is the paragraph and there is no
\* holiday; the two segmenters split every paragraph at the same place.
C26_SegmentersSplitAtFirstSeparator ==
    LET p == paragraph.p
        at == indexOf(p, ": ")
    IN  (paragraph.todayDone /\ paragraph.holidaysDone)
            => /\ ~paragraph.holidaysThrew
               /\ at # 0
                    => /\ paragraph.todayText
                            = replaceNewline(SubSeq(p, 1, at - 1)) \o <<"</p>">>
                       /\ Join(paragraph.holidays, "; ")
                            = <<"<p>">> \o replaceNewline(SubSeq(p, at + 1, Len(p)))
               /\ ~includesColon(p)
                    => /\ paragraph.todayText = p
                       /\ paragraph.holidays = <<>>

\* C27: a text that carries the year-count token comes out of the Sanitizer
\* with the token replaced by "N years ago", N being the current UTC year
\* minus the first parenthesized integer of the text.
C27_YearsAgoIsUTCYearMinusFirstYear ==
    (yearsAgo.done /\ ~yearsAgo.threw /\ includesYEARSAGO(yearsAgo.text))
        => \E i \in 1..Len(yearsAgo.text), j \in 1..Len(yearsAgo.text) :
            /\ yearsAgo.text[i] = YEARSAGO
            /\ \A k \in 1..(i - 1) : yearsAgo.text[k] # YEARSAGO
            /\ yearsAgo.text[j].t = "(int)"
            /\ \A k \in 1..(j - 1) : yearsAgo.text[k].t # "(int)"
            /\ yearsAgo.result =
                 [yearsAgo.text EXCEPT
                    ![i] = YearsAgoText(yearsAgo.utcYear - yearsAgo.text[j].y)]

\* a died-marker with (1827), followed by a later year, counted in 2025
\* gives 198 years ago
C27_Witness ==
    /\ yearsAgo.done
    /\ yearsAgo.utcYear = 2025
    /\ yearsAgo.text = <<[t |-> "word", y |-> 0], YEARSAGO, ParenInt(1827), ParenInt(1901)>>
    /\ yearsAgo.result = <<[t |-> "word", y |-> 0], YearsAgoText(198), ParenInt(1827),
                          ParenInt(1901)>>

\* C23: every record sent to Bluesky or appended to the post log has the
\* facets of the rich text as its facets and the creation timestamp as its
\* createdAt.
C23_PostRecordHasFacetsAndTimestamp ==
    \A i \in 1..Len(PostedLog) :
        /\ PostedLog[i].facets = RtFacets
        /\ \E n \in 1..Len(Instants) : PostedLog[i].createdAt = NowISO(n)

\* C24: for a link whose display text occurs in the final text, the bytes
\* of the text from byteStart up to byteEnd are the display text, and byteEnd
\* is byteStart plus the number of bytes of the display text.
C24_FacetBytesAreDisplayText ==
    facetCall.done
        => \A n \in 1..Len(facetCall.links) :
            textIndexOf(facetCall.text, facetCall.links[n].text) >= 0
                => LET f == facetCall.facets[n]
                   IN  /\ f.byteEnd = f.byteStart + length(facetCall.links[n].text)
                       /\ f.byteStart >= 0
                       /\ f.byteEnd <= length(facetCall.text)
                       /\ SubSeq(utf8(facetCall.text), f.byteStart + 1, f.byteEnd)
                            = utf8(facetCall.links[n].text)

\* a link behind an emoji: its facet starts at byte 4
C24_Witness ==
    /\ facetCall.done
    /\ facetCall.text = <<"H", "L", "a">>
    /\ Len(facetCall.links) = 1
    /\ facetCall.links[1].text = <<"a">>
    /\ facetCall.facets[1].byteStart = 4
    /\ facetCall.facets[1].byteEnd = 5

\* C25: no two links of a post get the same byte range, two links with the
\* same display text included.
C25_DistinctByteRanges ==
    facetCall.done
        => \A n, m \in 1..Len(facetCall.links) :
            (n # m /\ textIndexOf(facetCall.text, facetCall.links[n].text) >= 0
                   /\ textIndexOf(facetCall.text, facetCall.links[m].text) >= 0)
                => \/ facetCall.facets[n].byteStart # facetCall.facets[m].byteStart
                   \/ facetCall.facets[n].byteEnd # facetCall.facets[m].byteEnd

\* C30: every facet lies within the bytes of the text and is not empty, also
\* that of a link whose display text does not occur in the text.
C30_FacetWithinText ==
    facetCall.done
        => \A n \in 1..Len(facetCall.facets) :
            /\ 0 <= facetCall.facets[n].byteStart
            /\ facetCall.facets[n].byteStart < facetCall.facets[n].byteEnd
            /\ facetCall.facets[n].byteEnd <= length(facetCall.text)

====
